---- MODULE Spec2Model ----
(***************************************************************************)
(* streamlit_parameters: the parameter registry that reconciles registered *)
(* defaults, the streamlit session state and the URL query string.         *)
(*                                                                         *)
(* Python values are records [t |-> <runtime type>, v |-> <payload>]; a    *)
(* Python str is a sequence of one-character strings, so that indexing,    *)
(* strip(), split(), lower() and the str()/repr() conversions are computed *)
(* character by character as the interpreter computes them.  A raised      *)
(* exception is the value [t |-> "raise", v |-> <exception class>].        *)
(***************************************************************************)
EXTENDS Integers, Sequences, FiniteSets, TLC

VARIABLES
    has_parameters,   \* "_parameters" in streamlit.session_state
    parameters,       \* streamlit.session_state._parameters : key -> Parameter
    session_state,    \* the other entries of streamlit.session_state
    query,            \* the URL query string: key -> list of raw values
    registered_as,    \* history: the register_<type> that inserted each key
                      \*   and what it fetched from the query string
    shared,           \* history: what the previous session had exported
    last              \* history: the operation that produced this state

vars == <<has_parameters, parameters, session_state, query,
          registered_as, shared, last>>

----------------------------------------------------------------------------
(* Python values *)

PyBool(b) == [t |-> "bool", v |-> b]

PyInt(n) == [t |-> "int", v |-> n]

\* a finite decimal: sign, integer part, fraction digits without trailing zeros
PyFloat(neg, whole, frac) ==
    [t |-> "float", v |-> [neg |-> neg, whole |-> whole, frac |-> frac]]

PyStr(s) == [t |-> "str", v |-> s]

PyDate(y, m, d) == [t |-> "date", v |-> <<y, m, d>>]

PyTuple(items) == [t |-> "tuple", v |-> items]

PyList(items) == [t |-> "list", v |-> items]

Raise(e) == [t |-> "raise", v |-> e]

None == [t |-> "NoneType", v |-> "None"]

IsRaise(x) == x.t = "raise"

----------------------------------------------------------------------------
(* Characters *)

Digits == <<"0", "1", "2", "3", "4", "5", "6", "7", "8", "9">>

UpperCase == <<"A", "B", "C", "D", "E", "F", "G", "H", "I", "J", "K", "L", "M",
               "N", "O", "P", "Q", "R", "S", "T", "U", "V", "W", "X", "Y", "Z">>

LowerCase == <<"a", "b", "c", "d", "e", "f", "g", "h", "i", "j", "k", "l", "m",
               "n", "o", "p", "q", "r", "s", "t", "u", "v", "w", "x", "y", "z">>

IsDigit(c) == \E i \in 1..Len(Digits) : Digits[i] = c

DigitVal(c) == (CHOOSE i \in 1..Len(Digits) : Digits[i] = c) - 1

AllDigits(s) == s # <<>> /\ \A i \in 1..Len(s) : IsDigit(s[i])

RECURSIVE NatOf(_)
NatOf(s) ==
    IF s = <<>> THEN 0
    ELSE 10 * NatOf(SubSeq(s, 1, Len(s) - 1)) + DigitVal(s[Len(s)])

RECURSIVE NatToStr(_)
NatToStr(n) ==
    IF n < 10 THEN <<Digits[n + 1]>>
    ELSE NatToStr(n \div 10) \o <<Digits[(n % 10) + 1]>>

RECURSIVE ZeroPad(_, _)
ZeroPad(s, width) == IF Len(s) >= width THEN s ELSE ZeroPad(<<"0">> \o s, width)

RECURSIVE Join(_, _)
Join(sep, parts) ==
    IF parts = <<>> THEN <<>>
    ELSE IF Len(parts) = 1 THEN parts[1]
    ELSE parts[1] \o sep \o Join(sep, Tail(parts))

\* str.lower()
lower(s) ==
    [i \in 1..Len(s) |->
        IF \E j \in 1..Len(UpperCase) : UpperCase[j] = s[i]
        THEN LowerCase[CHOOSE j \in 1..Len(UpperCase) : UpperCase[j] = s[i]]
        ELSE s[i]]

\* str.strip()
RECURSIVE strip(_)
strip(s) ==
    IF s = <<>> THEN s
    ELSE IF s[1] = " " THEN strip(Tail(s))
    ELSE IF s[Len(s)] = " " THEN strip(SubSeq(s, 1, Len(s) - 1))
    ELSE s

\* str.split(sep) for a one-character separator
RECURSIVE split(_, _)
split(s, sep) ==
    IF \A i \in 1..Len(s) : s[i] # sep THEN <<s>>
    ELSE LET i == CHOOSE j \in 1..Len(s) :
                      s[j] = sep /\ \A h \in 1..(j - 1) : s[h] # sep
         IN  <<SubSeq(s, 1, i - 1)>> \o split(SubSeq(s, i + 1, Len(s)), sep)

----------------------------------------------------------------------------
(* str() and repr() of the values a Parameter can hold *)

date_str(d) ==
    ZeroPad(NatToStr(d[1]), 4) \o <<"-">> \o ZeroPad(NatToStr(d[2]), 2)
        \o <<"-">> \o ZeroPad(NatToStr(d[3]), 2)

float_str(f) ==
    (IF f.neg THEN <<"-">> ELSE <<>>) \o NatToStr(f.whole) \o <<".">>
        \o (IF f.frac = <<>> THEN <<"0">> ELSE f.frac)

\* repr of a str: single quotes, or double quotes when it holds ' and no "
str_repr(s) ==
    LET has(c) == \E i \in 1..Len(s) : s[i] = c
        esc(c) == IF c = "'" THEN <<"\\", "'">> ELSE <<c>>
    IN  IF has("'") /\ ~has("\"") THEN <<"\"">> \o s \o <<"\"">>
        ELSE <<"'">> \o Join(<<>>, [i \in 1..Len(s) |-> esc(s[i])]) \o <<"'">>

RECURSIVE str(_)
RECURSIVE repr(_)
str(x) ==
    CASE x.t = "bool" ->
            IF x.v THEN <<"T", "r", "u", "e">> ELSE <<"F", "a", "l", "s", "e">>
      [] x.t = "int" ->
            IF x.v < 0 THEN <<"-">> \o NatToStr(-x.v) ELSE NatToStr(x.v)
      [] x.t = "float" -> float_str(x.v)
      [] x.t = "str" -> x.v
      [] x.t = "date" -> date_str(x.v)
      [] x.t = "list" ->
            <<"[">> \o Join(<<",", " ">>, [i \in 1..Len(x.v) |-> repr(x.v[i])])
                \o <<"]">>
      [] x.t = "tuple" ->
            <<"(">> \o Join(<<",", " ">>, [i \in 1..Len(x.v) |-> repr(x.v[i])])
                \o (IF Len(x.v) = 1 THEN <<",">> ELSE <<>>) \o <<")">>

repr(x) ==
    CASE x.t = "str" -> str_repr(x.v)
      [] x.t = "date" ->
            <<"d", "a", "t", "e", "t", "i", "m", "e", ".", "d", "a", "t", "e", "(">>
                \o NatToStr(x.v[1]) \o <<",", " ">> \o NatToStr(x.v[2])
                \o <<",", " ">> \o NatToStr(x.v[3]) \o <<")">>
      [] OTHER -> str(x)

\* the == of two Python values
RECURSIVE PyEq(_, _)
PyEq(a, b) ==
    LET num(x) == IF x.t = "bool" THEN (IF x.v THEN 1 ELSE 0) ELSE x.v
        isInt(x) == x.t \in {"bool", "int"}
        asInt(f) == IF f.neg THEN -f.whole ELSE f.whole
    IN  CASE isInt(a) /\ isInt(b) -> num(a) = num(b)
          [] isInt(a) /\ b.t = "float" -> b.v.frac = <<>> /\ asInt(b.v) = num(a)
          [] a.t = "float" /\ isInt(b) -> a.v.frac = <<>> /\ asInt(a.v) = num(b)
          [] a.t \in {"list", "tuple"} /\ a.t = b.t ->
                /\ Len(a.v) = Len(b.v)
                /\ \A i \in 1..Len(a.v) : PyEq(a.v[i], b.v[i])
          [] OTHER -> a.t = b.t /\ a.v = b.v

----------------------------------------------------------------------------
(* The conversions the register operations apply to a raw query-string value *)

Unsigned(s) == IF s # <<>> /\ s[1] \in {"+", "-"} THEN Tail(s) ELSE s

RECURSIVE StripZeros(_)
StripZeros(s) ==
    IF s # <<>> /\ s[Len(s)] = "0" THEN StripZeros(SubSeq(s, 1, Len(s) - 1)) ELSE s

\* int(<str>): surrounding whitespace, an optional sign, decimal digits
int(s) ==
    LET body == strip(s)
    IN  IF AllDigits(Unsigned(body))
        THEN PyInt(IF body[1] = "-" THEN -NatOf(Unsigned(body))
                   ELSE NatOf(Unsigned(body)))
        ELSE Raise("ValueError")

\* float(<str>): surrounding whitespace, an optional sign, digits[.digits]
float(s) ==
    LET body == strip(s)
        parts == split(Unsigned(body), ".")
        whole == parts[1]
        frac == IF Len(parts) = 2 THEN parts[2] ELSE <<>>
        numeric(d) == \A i \in 1..Len(d) : IsDigit(d[i])
    IN  IF /\ Len(parts) <= 2
           /\ whole \o frac # <<>>
           /\ numeric(whole) /\ numeric(frac)
        THEN PyFloat(body[1] = "-", NatOf(whole), StripZeros(frac))
        ELSE Raise("ValueError")

DaysInMonth(y, m) ==
    IF m = 2
    THEN (IF y % 4 = 0 /\ (y % 100 # 0 \/ y % 400 = 0) THEN 29 ELSE 28)
    ELSE IF m \in {4, 6, 9, 11} THEN 30 ELSE 31

\* dateutil.parser.parse(<str>).date() on the strings HasDateutilModel admits:
\* an ISO date YYYY-MM-DD parses to that date, text without a digit is
\* rejected with ParserError, a ValueError
parse_date(s) ==
    LET body == strip(s)
        y == NatOf(SubSeq(body, 1, 4))
        m == NatOf(SubSeq(body, 6, 7))
        d == NatOf(SubSeq(body, 9, 10))
    IN  IF /\ Len(body) = 10
           /\ body[5] = "-" /\ body[8] = "-"
           /\ AllDigits(SubSeq(body, 1, 4))
           /\ AllDigits(SubSeq(body, 6, 7))
           /\ AllDigits(SubSeq(body, 9, 10))
           /\ m \in 1..12 /\ d \in 1..DaysInMonth(y, m)
        THEN PyDate(y, m, d)
        ELSE Raise("ValueError")

\* a strtobool that yields 1 for every word it accepts
strtobool_Membership(val) ==
    LET word == lower(val)
    IN  IF word \in {<<"y">>, <<"y", "e", "s">>, <<"t">>, <<"t", "r", "u", "e">>,
                     <<"o", "n">>, <<"1">>, <<"n">>, <<"n", "o">>, <<"f">>,
                     <<"f", "a", "l", "s", "e">>, <<"o", "f", "f">>, <<"0">>}
        THEN PyInt(1)
        ELSE Raise("ValueError")

\* distutils.util.strtobool
strtobool(val) ==
    LET word == lower(val)
    IN  IF word \in {<<"y">>, <<"y", "e", "s">>, <<"t">>, <<"t", "r", "u", "e">>,
                     <<"o", "n">>, <<"1">>}
        THEN PyInt(1)
        ELSE IF word \in {<<"n">>, <<"n", "o">>, <<"f">>,
                          <<"f", "a", "l", "s", "e">>, <<"o", "f", "f">>, <<"0">>}
        THEN PyInt(0)
        ELSE Raise("ValueError")

\* the query-string text decoded to the boolean it denotes
bool_from_url_Decoded(s) ==
    PyBool(lower(s) \in {<<"t", "r", "u", "e">>, <<"y", "e", "s">>})

\* s.lower() in ["true", "false", "yes", "no"]
bool_from_url(s) ==
    PyBool(lower(s) \in {<<"t", "r", "u", "e">>, <<"f", "a", "l", "s", "e">>,
                         <<"y", "e", "s">>, <<"n", "o">>})

----------------------------------------------------------------------------
(* Parameter *)

\* Parameter.__init__ flagging every new Parameter as touched
Parameter_AlwaysTouched(key, default, touched, to_str) ==
    [t |-> "Parameter", key |-> key, default |-> default, value |-> default,
     touched |-> TRUE, to_str |-> to_str]

\* Parameter.__init__
Parameter(key, default, touched, to_str) ==
    [t |-> "Parameter", key |-> key, default |-> default, value |-> default,
     touched |-> touched, to_str |-> to_str]

\* Parameter.update overwriting the default as well
update_MovesDefault(parameter, new_value) ==
    [parameter EXCEPT !.default = new_value, !.value = new_value, !.touched = TRUE]

\* Parameter.update without marking the Parameter as touched
update_LeavesUntouched(parameter, new_value) ==
    [parameter EXCEPT !.value = new_value]

\* Parameter.update
update(parameter, new_value) ==
    [parameter EXCEPT !.value = new_value, !.touched = TRUE]

\* _convert_list_or_tuple joining with ', '
_convert_list_or_tuple_Spaced(values) ==
    IF values.t \in {"list", "tuple", "str"}
    THEN LET items == IF values.t = "str"
                      THEN [i \in 1..Len(values.v) |-> <<values.v[i]>>]
                      ELSE [i \in 1..Len(values.v) |-> str(values.v[i])]
         IN  PyStr(<<"(">> \o Join(<<",", " ">>, items) \o <<")">>)
    ELSE Raise("TypeError")

\* _convert_list_or_tuple(values): iterates values, so a str yields its
\* characters and a value that is not iterable raises TypeError
_convert_list_or_tuple(values) ==
    IF values.t \in {"list", "tuple", "str"}
    THEN LET items == IF values.t = "str"
                      THEN [i \in 1..Len(values.v) |-> <<values.v[i]>>]
                      ELSE [i \in 1..Len(values.v) |-> str(values.v[i])]
         IN  PyStr(<<"(">> \o Join(<<",">>, items) \o <<")">>)
    ELSE Raise("TypeError")

\* parameter.to_str(parameter.value)
to_str(parameter) ==
    IF parameter.to_str = "_convert_list_or_tuple"
    THEN _convert_list_or_tuple(parameter.value)
    ELSE PyStr(str(parameter.value))

\* a display string that shows the default in the place of the value
Parameter__repr___Stale(parameter) ==
    <<"P", "a", "r", "a", "m", "e", "t", "e", "r", "(",
      "d", "e", "f", "a", "u", "l", "t", "=">> \o str(parameter.default)
        \o <<",", "v", "a", "l", "u", "e", "=">> \o str(parameter.default)
        \o <<",", "t", "o", "u", "c", "h", "e", "d", "=">>
        \o str(PyBool(parameter.touched)) \o <<")">>

\* Parameter.__repr__
Parameter__repr__(parameter) ==
    <<"P", "a", "r", "a", "m", "e", "t", "e", "r", "(",
      "d", "e", "f", "a", "u", "l", "t", "=">> \o str(parameter.default)
        \o <<",", "v", "a", "l", "u", "e", "=">> \o str(parameter.value)
        \o <<",", "t", "o", "u", "c", "h", "e", "d", "=">>
        \o str(PyBool(parameter.touched)) \o <<")">>

----------------------------------------------------------------------------
(* Parameters: the registry kept on streamlit.session_state *)

EmptyDict == [k \in {} |-> {}]

Put(dict, key, value) == [k \in DOMAIN dict \cup {key} |->
                             IF k = key THEN value ELSE dict[k]]

\* the record of an operation: its name and key, the exception it raised,
\* whether the key was registered before it, the keys whose entries it
\* removed from the query string, and the value it returned
Done(op, key, raised, already) ==
    [op |-> op, key |-> key, raised |-> raised, already |-> already,
     dropped |-> {}, returned |-> None]

\* Parameters.is_set_all
is_set_all == session_state["_parameters_set_all"].v

\* Parameters._already_registered finding no key
_already_registered_Never(key) == FALSE

\* Parameters._already_registered
_already_registered(key) == key \in DOMAIN parameters

\* Parameters._fetch_url_field returning the last value of the key's list
_fetch_url_field_Last(key) ==
    IF key \in DOMAIN query THEN PyStr(query[key][Len(query[key])])
    ELSE Raise("KeyError")

\* Parameters._fetch_url_field: the first value of the key's list
_fetch_url_field(key) ==
    IF key \in DOMAIN query THEN PyStr(query[key][1]) ELSE Raise("KeyError")

\* an element of the split that keeps its quotes
Unquote_KeepsQuotes(value) ==
    IF strip(value) = <<>> THEN Raise("IndexError") ELSE PyStr(strip(value))

\* one element of the split in Parameters._read_list_or_tuple
Unquote(value) ==
    LET stripped == strip(value)
        headless == IF stripped[1] = "'" THEN Tail(stripped) ELSE stripped
    IN  IF stripped = <<>> \/ headless = <<>> THEN Raise("IndexError")
        ELSE IF headless[Len(headless)] = "'"
        THEN PyStr(SubSeq(headless, 1, Len(headless) - 1))
        ELSE PyStr(headless)

\* Parameters._read_list_or_tuple, from the raw string on
Tokens(raw_str) ==
    LET headless == IF raw_str[1] \in {"(", "["} THEN Tail(raw_str) ELSE raw_str
        inner == IF headless[Len(headless)] \in {")", "]"}
                 THEN SubSeq(headless, 1, Len(headless) - 1) ELSE headless
        values == split(inner, ",")
        new_values == [i \in 1..Len(values) |-> Unquote(values[i])]
    IN  IF raw_str = <<>> \/ headless = <<>> THEN Raise("IndexError")
        ELSE IF inner = <<>> THEN PyList(<<>>)
        ELSE IF \E i \in 1..Len(values) : IsRaise(new_values[i])
        THEN Raise("IndexError")
        ELSE PyList(new_values)

\* Parameters._read_list_or_tuple
_read_list_or_tuple(key) ==
    LET fetched == _fetch_url_field(key)
    IN  IF IsRaise(fetched) THEN fetched ELSE Tokens(fetched.v)

\* the callables the register methods convert the elements of a list with
Call(callable, s) ==
    CASE callable = "int" -> int(s)
      [] callable = "float" -> float(s)
      [] callable = "parse_date" -> parse_date(s)
      [] callable = "strtobool" -> strtobool(s)

\* [convert(i) for i in items]: the first element that fails raises
Each(convert, items) ==
    LET parts == [i \in 1..Len(items) |-> Call(convert, items[i].v)]
    IN  IF \E i \in 1..Len(parts) : IsRaise(parts[i])
        THEN parts[CHOOSE i \in 1..Len(parts) :
                      IsRaise(parts[i]) /\ \A j \in 1..(i - 1) : ~IsRaise(parts[j])]
        ELSE PyList(parts)

\* the try statement with the caller's default taking precedence over the
\* query string
TryExcept_DefaultWins(key, converted, default_value, to) ==
    IF IsRaise(converted) /\ converted.v # "KeyError" THEN converted
    ELSE Parameter(key, default_value, FALSE, to)

\* the try statement leaving a Parameter read from the query string untouched
TryExcept_Untouched(key, converted, default_value, to) ==
    IF ~IsRaise(converted) THEN Parameter(key, converted, FALSE, to)
    ELSE IF converted.v = "KeyError" THEN Parameter(key, default_value, FALSE, to)
    ELSE converted

\* the try statement catching every exception
TryExcept_CatchesAll(key, converted, default_value, to) ==
    IF ~IsRaise(converted) THEN Parameter(key, converted, TRUE, to)
    ELSE Parameter(key, default_value, FALSE, to)

\* try: Parameter(default=<converted>, touched=True)
\* except KeyError: Parameter(default=default_value)
TryExcept(key, converted, default_value, to) ==
    IF ~IsRaise(converted) THEN Parameter(key, converted, TRUE, to)
    ELSE IF converted.v = "KeyError" THEN Parameter(key, default_value, FALSE, to)
    ELSE converted

\* a register method whose store replaces the registry by the new entry
Register_Single(type, key, outcome) ==
    /\ has_parameters
    /\ IF _already_registered(key)
       THEN /\ UNCHANGED <<parameters, registered_as>>
            /\ last' = Done("register", key, "none", TRUE)
       ELSE IF IsRaise(outcome)
       THEN /\ UNCHANGED <<parameters, registered_as>>
            /\ last' = Done("register", key, outcome.v, FALSE)
       ELSE /\ parameters' = Put(EmptyDict, key, outcome)
            /\ registered_as' =
                  Put(EmptyDict, key, [type |-> type, url |-> _fetch_url_field(key)])
            /\ last' = Done("register", key, "none", FALSE)
    /\ UNCHANGED <<has_parameters, session_state, query, shared>>

\* what every register_<type> does around its try statement: the early
\* return for a registered key and the store of the new Parameter
Register(type, key, outcome) ==
    /\ has_parameters
    /\ IF _already_registered(key)
       THEN /\ UNCHANGED <<parameters, registered_as>>
            /\ last' = Done("register", key, "none", TRUE)
       ELSE IF IsRaise(outcome)
       THEN /\ UNCHANGED <<parameters, registered_as>>
            /\ last' = Done("register", key, outcome.v, FALSE)
       ELSE /\ parameters' = Put(parameters, key, outcome)
            /\ registered_as' =
                  Put(registered_as, key, [type |-> type, url |-> _fetch_url_field(key)])
            /\ last' = Done("register", key, "none", FALSE)
    /\ UNCHANGED <<has_parameters, session_state, query, shared>>

\* the strings parse_date models dateutil on
HasDateutilModel(s) ==
    IF IsRaise(parse_date(s)) THEN \A i \in 1..Len(s) : ~IsDigit(s[i]) ELSE TRUE

\* the elements convert_callable is applied to are among those strings
InDateutilModel(key, items) ==
    IF _already_registered(key) \/ IsRaise(items) THEN TRUE
    ELSE \A i \in 1..Len(items.v) : HasDateutilModel(items.v[i].v)

\* Parameters.__init__ without the test for an existing registry
Parameters__init___Unguarded ==
    /\ has_parameters' = TRUE
    /\ parameters' = EmptyDict
    /\ session_state' = Put(session_state, "_parameters_set_all", PyBool(FALSE))
    /\ last' = Done("__init__", "", "none", has_parameters)
    /\ UNCHANGED <<query, registered_as, shared>>

\* Parameters.__init__
Parameters__init__ ==
    /\ IF ~has_parameters
       THEN /\ has_parameters' = TRUE
            /\ parameters' = EmptyDict
            /\ session_state' = Put(session_state, "_parameters_set_all", PyBool(FALSE))
       ELSE UNCHANGED <<has_parameters, parameters, session_state>>
    /\ last' = Done("__init__", "", "none", has_parameters)
    /\ UNCHANGED <<query, registered_as, shared>>

\* Parameters.register_int_parameter
register_int_parameter(key, default_value) ==
    Register("int", key,
        LET s == _fetch_url_field(key)
        IN  TryExcept(key, IF IsRaise(s) THEN s ELSE int(s.v), default_value, "str"))

\* Parameters._register_range_parameter without the assert statement
_register_range_parameter_NoAssert(type, key, default_value, convert_callable) ==
    Register(type, key,
        LET items == _read_list_or_tuple(key)
            parts == IF IsRaise(items) THEN items ELSE Each(convert_callable, items.v)
        IN  TryExcept(key,
                IF IsRaise(parts) THEN parts
                ELSE IF Len(parts.v) < 2 THEN Raise("IndexError")
                ELSE PyTuple(<<parts.v[1], parts.v[2]>>),
                default_value, "_convert_list_or_tuple"))

\* Parameters._register_range_parameter
_register_range_parameter(type, key, default_value, convert_callable) ==
    Register(type, key,
        LET items == _read_list_or_tuple(key)
            parts == IF IsRaise(items) THEN items ELSE Each(convert_callable, items.v)
        IN  TryExcept(key,
                IF IsRaise(parts) THEN parts
                ELSE IF Len(parts.v) # 2 THEN Raise("AssertionError")
                ELSE PyTuple(<<parts.v[1], parts.v[2]>>),
                default_value, "_convert_list_or_tuple"))

\* Parameters.register_int_range_parameter
register_int_range_parameter(key, default_value) ==
    _register_range_parameter("int_range", key, default_value, "int")

\* Parameters.register_float_parameter
register_float_parameter(key, default_value) ==
    Register("float", key,
        LET s == _fetch_url_field(key)
        IN  TryExcept(key, IF IsRaise(s) THEN s ELSE float(s.v), default_value, "str"))

\* Parameters.register_float_range_parameter
register_float_range_parameter(key, default_value) ==
    _register_range_parameter("float_range", key, default_value, "float")

\* Parameters.register_string_parameter
register_string_parameter(key, default_value) ==
    Register("string", key,
        TryExcept(key, _fetch_url_field(key), default_value, "str"))

\* Parameters.register_string_list_parameter
register_string_list_parameter(key, default_value) ==
    Register("string_list", key,
        TryExcept(key, _read_list_or_tuple(key), default_value, "str"))

\* Parameters.register_boolean_list_parameter
register_boolean_list_parameter(key, default_value) ==
    Register("boolean_list", key,
        LET values == _read_list_or_tuple(key)
        IN  TryExcept(key,
                IF IsRaise(values) THEN values ELSE Each("strtobool", values.v),
                default_value, "str"))

\* Parameters.register_date_parameter
register_date_parameter(key, default_value) ==
    /\ LET s == _fetch_url_field(key)
       IN  InDateutilModel(key, IF IsRaise(s) THEN s ELSE PyList(<<s>>))
    /\ Register("date", key,
        LET s == _fetch_url_field(key)
        IN  TryExcept(key, IF IsRaise(s) THEN s ELSE parse_date(s.v),
                      default_value, "str"))

\* Parameters.register_date_range_parameter
register_date_range_parameter(key, default_value) ==
    /\ InDateutilModel(key, _read_list_or_tuple(key))
    /\ _register_range_parameter("date_range", key, default_value, "parse_date")

\* Parameters.register_bool_parameter
register_bool_parameter(key, default_value) ==
    Register("bool", key,
        LET s == _fetch_url_field(key)
        IN  TryExcept(key, IF IsRaise(s) THEN s ELSE bool_from_url(s.v),
                      default_value, "str"))

\* Parameters.update_parameter
update_parameter(key, value) ==
    /\ has_parameters
    /\ IF key \in DOMAIN parameters
       THEN /\ parameters' = [parameters EXCEPT ![key] = update(@, value)]
            /\ last' = Done("update_parameter", key, "none", TRUE)
       ELSE /\ UNCHANGED parameters
            /\ last' = Done("update_parameter", key, "KeyError", FALSE)
    /\ UNCHANGED <<has_parameters, session_state, query, registered_as, shared>>

\* the export ignoring the export-all flag
Exported_TouchedOnly == {key \in DOMAIN parameters : parameters[key].touched}

\* the keys Parameters.set_url_fields puts into values
Exported == {key \in DOMAIN parameters : is_set_all \/ parameters[key].touched}

\* Parameters.set_url_fields merging its values into the query string
set_url_fields_Merges ==
    /\ has_parameters
    /\ LET values == [key \in Exported |-> to_str(parameters[key])]
       IN  IF \E key \in Exported : IsRaise(values[key])
           THEN /\ UNCHANGED <<query, shared>>
                /\ last' = Done("set_url_fields", "", "TypeError", FALSE)
           ELSE /\ query' = [key \in DOMAIN query \cup Exported |->
                                IF key \in Exported THEN <<values[key].v>>
                                ELSE query[key]]
                /\ shared' = EmptyDict
                /\ last' = [Done("set_url_fields", "", "none", FALSE)
                               EXCEPT !.dropped = DOMAIN query \ Exported]
    /\ UNCHANGED <<has_parameters, parameters, session_state, registered_as>>

\* Parameters.set_url_fields marking every Parameter it writes as touched
set_url_fields_MarksExported ==
    /\ has_parameters
    /\ LET values == [key \in Exported |-> to_str(parameters[key])]
       IN  IF \E key \in Exported : IsRaise(values[key])
           THEN /\ UNCHANGED <<query, shared, parameters>>
                /\ last' = Done("set_url_fields", "", "TypeError", FALSE)
           ELSE /\ query' = [key \in Exported |-> <<values[key].v>>]
                /\ parameters' = [key \in DOMAIN parameters |->
                                    IF key \in Exported
                                    THEN [parameters[key] EXCEPT !.touched = TRUE]
                                    ELSE parameters[key]]
                /\ shared' = EmptyDict
                /\ last' = [Done("set_url_fields", "", "none", FALSE)
                               EXCEPT !.dropped = DOMAIN query \ Exported]
    /\ UNCHANGED <<has_parameters, session_state, registered_as>>

\* _parameters.items(): AttrDict makes the mapping its own instance
\* dictionary, and dict's methods are not data descriptors, so the attribute
\* items is the entry stored under the key "items" when there is one, and
\* calling a Parameter raises TypeError
AttrDict_items(registry) ==
    IF "items" \in DOMAIN registry THEN Raise("TypeError")
    ELSE [t |-> "dict_items", v |-> registry]

\* Parameters.set_url_fields; streamlit.experimental_set_query_params
\* replaces the query string by the keyword arguments it is given
set_url_fields ==
    /\ has_parameters
    /\ LET values == [key \in Exported |-> to_str(parameters[key])]
       IN  IF IsRaise(AttrDict_items(parameters))
           THEN /\ UNCHANGED <<query, shared>>
                /\ last' = Done("set_url_fields", "", "TypeError", FALSE)
           ELSE IF \E key \in Exported : IsRaise(values[key])
           THEN /\ UNCHANGED <<query, shared>>
                /\ last' = Done("set_url_fields", "", "TypeError", FALSE)
           ELSE /\ query' = [key \in Exported |-> <<values[key].v>>]
                /\ shared' = EmptyDict
                /\ last' = [Done("set_url_fields", "", "none", FALSE)
                               EXCEPT !.dropped = DOMAIN query \ Exported]
    /\ UNCHANGED <<has_parameters, parameters, session_state, registered_as>>

\* the checkbox of Parameters.create_set_all_checkbox is toggled and
\* unchecking it marks every Parameter as not touched
create_set_all_checkbox_Resets(value) ==
    /\ has_parameters
    /\ session_state' = Put(session_state, "_parameters_set_all", PyBool(value))
    /\ parameters' = [key \in DOMAIN parameters |->
                        IF value THEN parameters[key]
                        ELSE [parameters[key] EXCEPT !.touched = FALSE]]
    /\ last' = Done("create_set_all_checkbox", "", "none", FALSE)
    /\ UNCHANGED <<has_parameters, query, registered_as, shared>>

\* the checkbox of Parameters.create_set_all_checkbox is toggled: streamlit
\* stores the widget's value under the widget's key
create_set_all_checkbox(value) ==
    /\ has_parameters
    /\ session_state' = Put(session_state, "_parameters_set_all", PyBool(value))
    /\ last' = Done("create_set_all_checkbox", "", "none", FALSE)
    /\ UNCHANGED <<has_parameters, parameters, query, registered_as, shared>>

\* the names Python finds on a Parameters object by normal attribute lookup:
\* __getattr__ is called only for a name that lookup does not find
ClassAttributes ==
    {"is_set_all", "create_set_all_checkbox", "as_dict",
     "register_int_parameter", "register_int_range_parameter",
     "register_float_parameter", "register_float_range_parameter",
     "register_string_parameter", "register_string_list_parameter",
     "register_boolean_list_parameter", "register_date_parameter",
     "register_date_range_parameter", "register_bool_parameter",
     "update_parameter_from_session_state", "update_parameter",
     "set_url_fields", "_read_list_or_tuple", "_register_range_parameter",
     "_already_registered", "_fetch_url_field"}

\* the expression parameters.<key>: Parameters.__getattr__ behind the normal
\* attribute lookup
Parameters__getattr__(key) ==
    /\ has_parameters
    /\ last' = IF key \in ClassAttributes
               THEN [Done("__getattr__", key, "none", key \in DOMAIN parameters)
                        EXCEPT !.returned = [t |-> "method", v |-> key]]
               ELSE IF key \in DOMAIN parameters
               THEN [Done("__getattr__", key, "none", TRUE)
                        EXCEPT !.returned = parameters[key]]
               ELSE Done("__getattr__", key, "KeyError", FALSE)
    /\ UNCHANGED <<has_parameters, parameters, session_state, query,
                   registered_as, shared>>

\* Parameters.as_dict returning the registry itself
as_dict_TheRegistry ==
    /\ has_parameters
    /\ last' = [Done("as_dict", "", "none", FALSE)
                  EXCEPT !.returned = [t |-> "dict", same |-> TRUE, v |-> parameters]]
    /\ UNCHANGED <<has_parameters, parameters, session_state, query,
                   registered_as, shared>>

\* Parameters.as_dict: dict(...) builds a new dict, which is not the registry
as_dict ==
    /\ has_parameters
    /\ last' = [Done("as_dict", "", "none", FALSE)
                  EXCEPT !.returned = [t |-> "dict", same |-> FALSE, v |-> parameters]]
    /\ UNCHANGED <<has_parameters, parameters, session_state, query,
                   registered_as, shared>>

\* the page deletes a key of the dict as_dict returned (fresh = FALSE) or
\* stores a value under a key of it: a write to the registry itself when the
\* dict is the registry
dict_write(key, fresh) ==
    /\ last.returned.t = "dict"
    /\ fresh \/ key \in DOMAIN last.returned.v
    /\ LET written == IF fresh THEN Put(last.returned.v, key, None)
                      ELSE [k \in DOMAIN last.returned.v \ {key} |->
                               last.returned.v[k]]
       IN  /\ last' = [Done("dict_write", key, "none", key \in DOMAIN parameters)
                         EXCEPT !.returned = [last.returned EXCEPT !.v = written]]
           /\ parameters' = IF last.returned.same THEN written ELSE parameters
    /\ UNCHANGED <<has_parameters, session_state, query, registered_as, shared>>

\* streamlit stores the value of the widget created with key=key under that
\* key of streamlit.session_state
widget(key, value) ==
    /\ has_parameters
    /\ session_state' = Put(session_state, key, value)
    /\ last' = Done("widget", key, "none", key \in DOMAIN parameters)
    /\ UNCHANGED <<has_parameters, parameters, query, registered_as, shared>>

\* Parameters.update_parameter_from_session_state reading the value from the
\* registry in place of streamlit.session_state
update_parameter_from_session_state_FromRegistry(key) ==
    /\ has_parameters
    /\ IF key \in DOMAIN parameters
       THEN /\ parameters' =
                  [parameters EXCEPT ![key] = update(@, parameters[key].value)]
            /\ last' = Done("update_parameter_from_session_state", key, "none", TRUE)
       ELSE /\ UNCHANGED parameters
            /\ last' = Done("update_parameter_from_session_state", key,
                            "KeyError", FALSE)
    /\ UNCHANGED <<has_parameters, session_state, query, registered_as, shared>>

\* Parameters.update_parameter_from_session_state; getattr on
\* streamlit.session_state raises AttributeError for a key it does not hold
update_parameter_from_session_state(key) ==
    /\ has_parameters
    /\ IF key \notin DOMAIN session_state
       THEN /\ UNCHANGED parameters
            /\ last' = Done("update_parameter_from_session_state", key,
                            "AttributeError", key \in DOMAIN parameters)
       ELSE IF key \in DOMAIN parameters
       THEN /\ parameters' =
                  [parameters EXCEPT ![key] = update(@, session_state[key])]
            /\ last' = Done("update_parameter_from_session_state", key, "none", TRUE)
       ELSE /\ UNCHANGED parameters
            /\ last' = Done("update_parameter_from_session_state", key,
                            "KeyError", FALSE)
    /\ UNCHANGED <<has_parameters, session_state, query, registered_as, shared>>

\* the URL an export has written is opened in another session: the query
\* string is the one the page had, streamlit.session_state starts empty
NewSession ==
    /\ has_parameters
    /\ last.op = "set_url_fields" /\ last.raised = "none"
    /\ has_parameters' = FALSE
    /\ parameters' = EmptyDict
    /\ session_state' = EmptyDict
    /\ registered_as' = EmptyDict
    /\ shared' = [key \in DOMAIN query |->
                    [type |-> registered_as[key].type,
                     value |-> parameters[key].value]]
    /\ last' = Done("load", "", "none", FALSE)
    /\ UNCHANGED query

----------------------------------------------------------------------------
(* The inputs: keys, default_value and value arguments, query strings *)

Keys == {"foo", "bar"}

Day1 == PyDate(2021, 11, 1)

Day3 == PyDate(2021, 11, 3)

\* the default_value arguments of register_<type>
DefaultValues(type) ==
    CASE type = "bool" -> {PyBool(FALSE), PyBool(TRUE)}
      [] type = "int" -> {PyInt(0), PyInt(16)}
      [] type = "float" -> {PyFloat(FALSE, 0, <<>>)}
      [] type = "string" -> {PyStr(<<"H", "i">>)}
      [] type = "date" -> {PyDate(2020, 10, 5)}
      [] type = "int_range" -> {PyTuple(<<PyInt(0), PyInt(0)>>)}
      [] type = "float_range" ->
            {PyTuple(<<PyFloat(FALSE, 0, <<>>), PyFloat(FALSE, 0, <<>>)>>)}
      [] type = "date_range" -> {PyTuple(<<PyDate(2020, 10, 5), Day3>>)}
      [] type = "string_list" -> {PyList(<<PyStr(<<"a">>), PyStr(<<"b">>)>>)}
      [] type = "boolean_list" -> {PyList(<<PyBool(TRUE), PyBool(FALSE)>>)}

\* the register_<type> calls of the page: "foo" is registered with every
\* type, "bar" is the other parameter of the page, an int
Calls(type) ==
    {<<"foo", default_value>> : default_value \in DefaultValues(type)}
        \cup (IF type = "int" THEN {<<"bar", PyInt(0)>>} ELSE {})

\* a new value of each type
NewValue(type) ==
    CASE type = "bool" -> PyBool(FALSE)
      [] type = "int" -> PyInt(4)
      [] type = "float" -> PyFloat(FALSE, 3, <<"5">>)
      [] type = "string" -> PyStr(<<"H", "e", "l", "l", "o">>)
      [] type = "date" -> Day1
      [] type = "int_range" -> PyTuple(<<PyInt(1), PyInt(2)>>)
      [] type = "float_range" ->
            PyTuple(<<PyFloat(FALSE, 1, <<"5">>), PyFloat(FALSE, 2, <<>>)>>)
      [] type = "date_range" -> PyTuple(<<Day1, Day3>>)
      [] type = "string_list" -> PyList(<<PyStr(<<"x">>)>>)
      [] type = "boolean_list" -> PyList(<<PyBool(FALSE), PyBool(TRUE)>>)

\* the value arguments of update_parameter: a value of the type the key was
\* registered with and a value of another type (update does not validate)
UpdateValues(key) ==
    IF key \in DOMAIN registered_as /\ key = "foo"
    THEN {NewValue(registered_as[key].type),
          IF registered_as[key].type = "string"
          THEN NewValue("int") ELSE NewValue("string")}
    ELSE {NewValue("int")}

\* the raw values a query string holds when the page is loaded
RawValues ==
    {<<"T", "r", "u", "e">>,
     <<"F", "a", "l", "s", "e">>,
     <<"1", "4">>,
     <<"2", ".", "5">>,
     <<"a", "b", "c">>,
     <<"2", "0", "2", "1", "-", "1", "1", "-", "0", "1">>,
     <<"(", "1", "0", ",", " ", "2", "0", ")">>,
     <<"(", "1", ".", "5", ",", "2", ".", "5", ")">>,
     <<"(", "2", "0", "2", "1", "-", "1", "1", "-", "0", "1", ",", " ", "2", "0", "2", "1", "-", "1", "1", "-", "0", "3", ")">>,
     <<"[", "'", "a", "'", ",", " ", "'", "b", "'", "]">>,
     <<"[", "t", "r", "u", "e", ",", " ", "f", "a", "l", "s", "e", "]">>,
     <<"[", "]">>}

BarRawValues == {<<"1", "4">>}

\* a key of the query string carries at most this many values
MaxQueryValues == 2

\* the values that follow the first one in a key's list
MoreValues == {[i \in 1..n |-> <<"7">>] : n \in 0..(MaxQueryValues - 1)}

InitialQueries ==
    {[key \in keys |-> <<raws[key]>> \o more[key]] :
        keys \in SUBSET Keys,
        raws \in [foo : RawValues, bar : BarRawValues],
        more \in [foo : MoreValues, bar : {<<>>}]}

Init ==
    /\ has_parameters = FALSE
    /\ parameters = EmptyDict
    /\ session_state = EmptyDict
    /\ query \in InitialQueries
    /\ registered_as = EmptyDict
    /\ shared = EmptyDict
    /\ last = Done("load", "", "none", FALSE)

\* one operation of a page whose parameters are keys
Page(keys) ==
    \/ Parameters__init__
    \/ \E call \in Calls("bool") :
          call[1] \in keys /\ register_bool_parameter(call[1], call[2])
    \/ \E call \in Calls("int") :
          call[1] \in keys /\ register_int_parameter(call[1], call[2])
    \/ \E call \in Calls("float") :
          call[1] \in keys /\ register_float_parameter(call[1], call[2])
    \/ \E call \in Calls("string") :
          call[1] \in keys /\ register_string_parameter(call[1], call[2])
    \/ \E call \in Calls("date") :
          call[1] \in keys /\ register_date_parameter(call[1], call[2])
    \/ \E call \in Calls("int_range") :
          call[1] \in keys /\ register_int_range_parameter(call[1], call[2])
    \/ \E call \in Calls("float_range") :
          call[1] \in keys /\ register_float_range_parameter(call[1], call[2])
    \/ \E call \in Calls("date_range") :
          call[1] \in keys /\ register_date_range_parameter(call[1], call[2])
    \/ \E call \in Calls("string_list") :
          call[1] \in keys /\ register_string_list_parameter(call[1], call[2])
    \/ \E call \in Calls("boolean_list") :
          call[1] \in keys /\ register_boolean_list_parameter(call[1], call[2])
    \/ \E key \in keys : \E value \in UpdateValues(key) : update_parameter(key, value)
    \/ set_url_fields
    \/ \E value \in BOOLEAN : create_set_all_checkbox(value)

Next == Page(Keys)

Spec == Init /\ [][Next]_vars

\* the sessions of a page with the one parameter "foo", one after the other:
\* the first is opened without a query string, each later one on the URL an
\* export of the previous one has written
InitShare == Init /\ query = EmptyDict

NextShare == Page({"foo"}) \/ NewSession

SpecShare == InitShare /\ [][NextShare]_vars

\* the session is loaded on a query string that holds an entry for each of
\* the page's keys
LoadedQuery == [key \in Keys |-> <<<<"1", "4">>>>]

InitLoad == Init /\ query = LoadedQuery

SpecLoad == InitLoad /\ [][Next]_vars

\* the page is loaded on a query string that holds one value for "foo", and
\* registers "foo"
UrlRawValues ==
    {<<"T", "r", "u", "e">>,
     <<"F", "a", "l", "s", "e">>,
     <<"y", "e", "s">>,
     <<"N", "O">>,
     <<"a", "b", "c">>,
     <<>>,
     <<"1">>,
     <<"2", ".", "5">>,
     <<"(", "1", "0", ",", " ", "2", "0", ")">>,
     <<"(", ")">>,
     <<"(">>,
     <<"1", "0", ",">>,
     <<"(", "1", ",", "2", ",", "3", ")">>,
     <<"[", "1", ",", "2", "]">>,
     <<"(", "1", ",", "x", ")">>,
     <<"(", "7", ")">>,
     <<"(", "1", ".", "5", ",", "2", ".", "5", ")">>,
     <<"(", "2", "0", "2", "1", "-", "1", "1", "-", "0", "1", ",", " ", "2", "0", "2", "1", "-", "1", "1", "-", "0", "3", ")">>,
     <<"(", "2", "0", "2", "1", "-", "1", "1", "-", "0", "1", ")">>,
     <<"(", "2", "0", "2", "1", "-", "1", "1", "-", "0", "1", ",", "2", "0", "2", "1", "-", "1", "1", "-", "0", "3", ",", "2", "0", "2", "1", "-", "1", "1", "-", "0", "1", ")">>,
     <<"[", "t", "r", "u", "e", ",", " ", "f", "a", "l", "s", "e", "]">>,
     <<"[", "n", "o", ",", "Y", "E", "S", ",", "0", "]">>,
     <<"[", "t", "r", "u", "e", ",", "m", "a", "y", "b", "e", "]">>,
     <<"[", "'", "a", "'", ",", " ", "'", "b", "'", "]">>,
     <<"[", "]">>,
     <<"2", "0", "2", "1", "-", "1", "1", "-", "0", "1">>,
     <<"[", "1", "0", ",", "2", "0", "]">>,
     <<"1", "0", ",", "2", "0">>,
     <<"(", "'", "1", "0", "'", ",", "'", "2", "0", "'", ")">>,
     <<"(", "(", "1", "0", ",", "2", "0", ")", ")">>}

InitUrl ==
    /\ has_parameters = FALSE
    /\ parameters = EmptyDict
    /\ session_state = EmptyDict
    /\ query \in {[key \in {"foo"} |-> <<raw>>] : raw \in UrlRawValues}
    /\ registered_as = EmptyDict
    /\ shared = EmptyDict
    /\ last = Done("load", "", "none", FALSE)

NextUrl ==
    \/ Parameters__init__
    \/ \E call \in Calls("bool") :
          call[1] = "foo" /\ register_bool_parameter(call[1], call[2])
    \/ \E call \in Calls("int") :
          call[1] = "foo" /\ register_int_parameter(call[1], call[2])
    \/ \E call \in Calls("float") :
          call[1] = "foo" /\ register_float_parameter(call[1], call[2])
    \/ \E call \in Calls("string") :
          call[1] = "foo" /\ register_string_parameter(call[1], call[2])
    \/ \E call \in Calls("date") :
          call[1] = "foo" /\ register_date_parameter(call[1], call[2])
    \/ \E call \in Calls("int_range") :
          call[1] = "foo" /\ register_int_range_parameter(call[1], call[2])
    \/ \E call \in Calls("float_range") :
          call[1] = "foo" /\ register_float_range_parameter(call[1], call[2])
    \/ \E call \in Calls("date_range") :
          call[1] = "foo" /\ register_date_range_parameter(call[1], call[2])
    \/ \E call \in Calls("string_list") :
          call[1] = "foo" /\ register_string_list_parameter(call[1], call[2])
    \/ \E call \in Calls("boolean_list") :
          call[1] = "foo" /\ register_boolean_list_parameter(call[1], call[2])

SpecUrl == InitUrl /\ [][NextUrl]_vars

\* the values a page gives its range and list parameters before it exports them
TripInts == {-5, 0, 12}

TripValues(type) ==
    CASE type = "int_range" ->
            {PyTuple(<<PyInt(a), PyInt(b)>>) : a \in TripInts, b \in TripInts}
      [] type = "date_range" ->
            {PyTuple(<<a, b>>) : a \in {Day1, PyDate(2020, 2, 29)}, b \in {Day1, Day3}}
      [] type = "string_list" ->
            {PyList(<<>>),
             PyList(<<PyStr(<<"a">>)>>),
             PyList(<<PyStr(<<"a">>), PyStr(<<"b">>)>>),
             PyList(<<PyStr(<<" ", "a", " ">>), PyStr(<<"b", " ", "c">>)>>),
             PyList(<<PyStr(<<>>)>>),
             PyList(<<PyStr(<<"a", ",", "b">>)>>),
             PyList(<<PyStr(<<"i", "t", "'", "s">>)>>)}

\* the sessions of a page with the one range or list parameter "foo": the
\* page registers it, exports every parameter, and the URL is opened in the
\* next session while the exported values are values of the page
NextTrip ==
    \/ Parameters__init__
    \/ \E default_value \in TripValues("int_range") :
          register_int_range_parameter("foo", default_value)
    \/ \E default_value \in TripValues("date_range") :
          register_date_range_parameter("foo", default_value)
    \/ \E default_value \in TripValues("string_list") :
          register_string_list_parameter("foo", default_value)
    \/ create_set_all_checkbox(TRUE)
    \/ set_url_fields
    \/ /\ \A key \in DOMAIN parameters :
             parameters[key].value \in TripValues(registered_as[key].type)
       /\ NewSession

SpecTrip == InitShare /\ [][NextTrip]_vars

\* a page that reads its parameters back: by attribute, as a dict, and from
\* the widgets' values; one of its keys has the name of a method
AccessKeys == {"foo", "as_dict"}

\* the values of the widgets
WidgetValues == {PyInt(4), PyStr(<<"H", "e", "l", "l", "o">>)}

InitAccess ==
    /\ Init
    /\ DOMAIN query \subseteq {"foo"}
    /\ \A key \in DOMAIN query : query[key] = <<<<"1", "4">>>>

NextAccess ==
    \/ Parameters__init__
    \/ \E key \in AccessKeys : register_int_parameter(key, PyInt(0))
    \/ \E key \in AccessKeys : update_parameter(key, PyInt(16))
    \/ \E key \in AccessKeys : Parameters__getattr__(key)
    \/ as_dict
    \/ \E key \in AccessKeys : \E fresh \in BOOLEAN : dict_write(key, fresh)
    \/ \E key \in AccessKeys : \E value \in WidgetValues : widget(key, value)
    \/ \E key \in AccessKeys : update_parameter_from_session_state(key)
    \/ \E value \in BOOLEAN : create_set_all_checkbox(value)

SpecAccess == InitAccess /\ [][NextAccess]_vars

\* a page one of whose keys has the name of a method of dict; its updates
\* pass values of the type the key was registered with
ItemsKeys == {"foo", "items"}

InitItems ==
    /\ has_parameters = FALSE
    /\ parameters = EmptyDict
    /\ session_state = EmptyDict
    /\ query \in {[key \in keys |-> <<<<"1", "4">>>>] : keys \in SUBSET ItemsKeys}
    /\ registered_as = EmptyDict
    /\ shared = EmptyDict
    /\ last = Done("load", "", "none", FALSE)

NextItems ==
    \/ Parameters__init__
    \/ \E key \in ItemsKeys : register_int_parameter(key, PyInt(0))
    \/ \E key \in ItemsKeys :
          register_string_parameter(key, PyStr(<<"H", "i">>))
    \/ \E key \in ItemsKeys \cap DOMAIN registered_as :
          update_parameter(key, NewValue(registered_as[key].type))
    \/ set_url_fields
    \/ \E value \in BOOLEAN : create_set_all_checkbox(value)

SpecItems == InitItems /\ [][NextItems]_vars

----------------------------------------------------------------------------
(* The claims *)

Types == {"bool", "int", "float", "string", "date", "int_range", "float_range",
          "date_range", "string_list", "boolean_list"}

\* the call register_<type>(key, default_value)
register(type, key, default_value) ==
    CASE type = "bool" -> register_bool_parameter(key, default_value)
      [] type = "int" -> register_int_parameter(key, default_value)
      [] type = "float" -> register_float_parameter(key, default_value)
      [] type = "string" -> register_string_parameter(key, default_value)
      [] type = "date" -> register_date_parameter(key, default_value)
      [] type = "int_range" -> register_int_range_parameter(key, default_value)
      [] type = "float_range" -> register_float_range_parameter(key, default_value)
      [] type = "date_range" -> register_date_range_parameter(key, default_value)
      [] type = "string_list" -> register_string_list_parameter(key, default_value)
      [] type = "boolean_list" -> register_boolean_list_parameter(key, default_value)

\* the value a raw query-string entry stands for under the conversion rule of
\* each type; a Raise when the entry is not valid for the type
parsed(type, raw) ==
    LET pair(items) == IF IsRaise(items) THEN items
                       ELSE IF Len(items.v) # 2 THEN Raise("AssertionError")
                       ELSE PyTuple(items.v)
        each(convert) == IF IsRaise(Tokens(raw)) THEN Tokens(raw)
                            ELSE Each(convert, Tokens(raw).v)
    IN  CASE type = "bool" -> bool_from_url(raw)
          [] type = "int" -> int(raw)
          [] type = "float" -> float(raw)
          [] type = "string" -> PyStr(raw)
          [] type = "date" -> parse_date(raw)
          [] type = "int_range" -> pair(each("int"))
          [] type = "float_range" -> pair(each("float"))
          [] type = "date_range" -> pair(each("parse_date"))
          [] type = "string_list" -> Tokens(raw)
          [] type = "boolean_list" -> each("strtobool")

\* the step is the call register_<type>(key, default_value) for a key that is
\* not registered (the third conjunct follows from the last one and spares
\* evaluating it for the other types)
RegistersNew(type, key, default_value) ==
    /\ last'.op = "register" /\ last'.key = key
    /\ key \notin DOMAIN parameters
    /\ key \in DOMAIN registered_as' => registered_as'[key].type = type
    /\ register(type, key, default_value)

C2_RegisterWithoutUrl ==
    [][\A type \in Types : \A call \in Calls(type) :
          LET key == call[1]
              default_value == call[2]
          IN  (/\ key \notin DOMAIN query
               /\ RegistersNew(type, key, default_value))
              => /\ key \in DOMAIN parameters'
                 /\ parameters'[key].default = default_value
                 /\ parameters'[key].value = default_value
                 /\ parameters'[key].touched = FALSE]_vars

\* a key without a query-string entry has just been registered
C2_Witness ==
    /\ last.op = "register" /\ ~last.already /\ last.raised = "none"
    /\ last.key \notin DOMAIN query
    /\ registered_as[last.key].type = "string_list"
    /\ ~parameters[last.key].touched
    /\ parameters[last.key].value = parameters[last.key].default

\* C3: a register call for a key that is registered raises nothing and leaves
\* the registry, the export-all flag and the query string as they were
C3_ReRegistrationNoOp ==
    [][\A key \in Keys :
          (/\ last'.op = "register" /\ last'.key = key
           /\ key \in DOMAIN parameters)
          => /\ last'.raised = "none"
             /\ parameters' = parameters
             /\ UNCHANGED <<has_parameters, session_state, query>>]_vars

\* a key whose value an update had set, and whose query-string entry an
\* export had rewritten, has been registered again
C3_Witness ==
    /\ last.op = "register" /\ last.already
    /\ parameters[last.key].value # parameters[last.key].default
    /\ registered_as[last.key].url.t = "str"
    /\ last.key \in DOMAIN query
    /\ query[last.key][1] # registered_as[last.key].url.v

\* C4: the first Parameters() of a session creates an empty registry and sets
\* the export-all flag to False; every later one leaves both as they were
C4_ConstructionLazyIdempotent ==
    [][last'.op = "__init__" =>
          IF has_parameters
          THEN UNCHANGED <<has_parameters, parameters, session_state>>
          ELSE /\ has_parameters'
               /\ parameters' = EmptyDict
               /\ session_state'["_parameters_set_all"] = PyBool(FALSE)]_vars

\* Parameters() has been called again on a registry that holds an updated
\* Parameter, with the export-all flag set
C4_Witness ==
    /\ last.op = "__init__" /\ last.already
    /\ is_set_all
    /\ \E key \in DOMAIN parameters :
          parameters[key].value # parameters[key].default

\* C5: update_parameter(key, value) of a registered key sets value and touched,
\* and leaves default, every other Parameter and the export-all flag unchanged
C5_UpdateFrame ==
    [][\A key \in DOMAIN parameters : \A value \in UpdateValues(key) :
          (/\ last'.op = "update_parameter" /\ last'.key = key
           /\ update_parameter(key, value))
          => /\ parameters'[key].value = value
             /\ parameters'[key].touched = TRUE
             /\ parameters'[key].default = parameters[key].default
             /\ DOMAIN parameters' = DOMAIN parameters
             /\ \A other \in DOMAIN parameters \ {key} :
                   parameters'[other] = parameters[other]
             /\ session_state' = session_state]_vars

\* an untouched Parameter beside another one has been updated with a value
\* that is not of its type
C5_Witness ==
    /\ last.op = "update_parameter" /\ last.raised = "none"
    /\ registered_as[last.key].url.t = "raise"
    /\ parameters[last.key].value.t # parameters[last.key].default.t
    /\ DOMAIN parameters # {last.key}

\* C6: the mapping set_url_fields writes holds a registered key iff the
\* export-all flag is set or the Parameter is touched, and holds for it the
\* serializer's string of the current value
C6_ExportRule ==
    (last.op = "set_url_fields" /\ last.raised = "none") =>
        \A key \in DOMAIN parameters :
           /\ key \in DOMAIN query <=> (is_set_all \/ parameters[key].touched)
           /\ key \in DOMAIN query => query[key] = <<to_str(parameters[key]).v>>

\* an export in partial mode has written an updated value and left an
\* untouched Parameter out
C6_Witness ==
    /\ last.op = "set_url_fields" /\ last.raised = "none"
    /\ ~is_set_all
    /\ \E key \in DOMAIN parameters :
          /\ parameters[key].touched
          /\ parameters[key].value # parameters[key].default
          /\ key \in DOMAIN query
    /\ \E key \in DOMAIN parameters :
          ~parameters[key].touched /\ key \notin DOMAIN query

\* C7: after set_url_fields the keys of the query string are exactly the
\* registered keys selected for export: no entry it did not write is left
C7_ExportReplaces ==
    (last.op = "set_url_fields" /\ last.raised = "none") =>
        /\ DOMAIN query =
              {key \in DOMAIN parameters : is_set_all \/ parameters[key].touched}
        /\ last.dropped \cap DOMAIN query = {}
        /\ \A key \in DOMAIN query : Len(query[key]) = 1

\* an export has removed the entry of a key that was never registered
C7_Witness ==
    /\ last.op = "set_url_fields" /\ last.raised = "none"
    /\ \E key \in last.dropped : key \notin DOMAIN parameters
    /\ DOMAIN query # {}

\* the serializer register_<type> gives the Parameter
serializer(type, value) ==
    IF type \in {"int_range", "float_range", "date_range"}
    THEN <<"(">> \o Join(<<",">>, [i \in 1..Len(value.v) |-> str(value.v[i])])
            \o <<")">>
    ELSE str(value)

\* C8: a Parameter registered from the query string that no update has
\* changed is written by the export, also in partial mode, as the
\* serializer's string of the parsed entry
C8_UrlValueWrittenBack ==
    (last.op = "set_url_fields" /\ last.raised = "none") =>
        \A key \in DOMAIN parameters :
           LET from == registered_as[key]
           IN  (from.url.t = "str"
                /\ parameters[key].value = parameters[key].default)
               => /\ key \in DOMAIN query
                  /\ query[key] =
                        <<serializer(from.type, parsed(from.type, from.url.v))>>

\* an export in partial mode has written back '(10,20)' for the entry
\* '(10, 20)' of an int range that was never updated
C8_Witness ==
    /\ last.op = "set_url_fields" /\ last.raised = "none"
    /\ ~is_set_all
    /\ \E key \in DOMAIN parameters :
          /\ registered_as[key].type = "int_range"
          /\ registered_as[key].url = PyStr(<<"(", "1", "0", ",", " ", "2", "0", ")">>)
          /\ parameters[key].value = parameters[key].default
          /\ query[key] = <<<<"(", "1", "0", ",", "2", "0", ")">>>>

\* the values of the type register_<type> handles
HasType(type, value) ==
    LET all(items, t) == \A i \in 1..Len(items) : items[i].t = t
        scalar == CASE type \in {"int_range"} -> "int"
                    [] type \in {"float_range"} -> "float"
                    [] type \in {"date_range"} -> "date"
                    [] type = "string_list" -> "str"
                    [] type = "boolean_list" -> "bool"
                    [] type = "string" -> "str"
                    [] OTHER -> type
    IN  CASE type \in {"int_range", "float_range", "date_range"} ->
                value.t = "tuple" /\ Len(value.v) = 2 /\ all(value.v, scalar)
          [] type \in {"string_list", "boolean_list"} ->
                value.t = "list" /\ all(value.v, scalar)
          [] OTHER -> value.t = scalar

\* C9: a session opened on the query string an export wrote, registering an
\* exported key with the same register_<type>, succeeds and obtains the
\* value the exporting session had for it
C9_ExportReproducesState ==
    [][\A key \in DOMAIN shared : \A call \in Calls(shared[key].type) :
          (/\ call[1] = key
           /\ HasType(shared[key].type, shared[key].value)
           /\ RegistersNew(shared[key].type, key, call[2]))
          => /\ last'.raised = "none"
             /\ key \in DOMAIN parameters'
             /\ PyEq(parameters'[key].value, shared[key].value)]_vars

\* C10: register_bool_parameter decodes the raw value 'True' to True and the
\* raw value 'False' to False, touched, and the display string shows it
C10_BoolDecoded ==
    \A key \in DOMAIN parameters :
       LET from == registered_as[key]
           denoted == PyBool(from.url.v = <<"T", "r", "u", "e">>)
       IN  (/\ from.type = "bool"
            /\ from.url \in {PyStr(<<"T", "r", "u", "e">>), PyStr(<<"F", "a", "l", "s", "e">>)}
            /\ last.op = "register" /\ last.key = key /\ ~last.already)
           => /\ parameters[key].default = denoted
              /\ parameters[key].value = denoted
              /\ parameters[key].touched
              /\ Parameter__repr__(parameters[key]) =
                    Parameter__repr__(Parameter(key, denoted, TRUE, "str"))

C12_ConversionFailureAborts ==
    [][\A type \in Types : \A call \in Calls(type) :
          LET key == call[1]
          IN  (/\ key \in DOMAIN query
               /\ RegistersNew(type, key, call[2])
               /\ IsRaise(parsed(type, query[key][1])))
              => /\ last'.raised # "none"
                 /\ last'.raised = parsed(type, query[key][1]).v
                 /\ key \notin DOMAIN parameters'
                 /\ parameters' = parameters
                 /\ UNCHANGED <<has_parameters, session_state, query>>]_vars

\* the registration of a key has failed on its entry while another key was
\* registered and the export-all flag was set
C12_Witness ==
    /\ last.op = "register" /\ last.raised = "AssertionError"
    /\ last.key \notin DOMAIN parameters
    /\ DOMAIN parameters # {}
    /\ is_set_all

\* the elements the raw value splits into on ',' once one bracket is taken
\* off each end
Elements(raw) ==
    LET headless == IF raw # <<>> /\ raw[1] \in {"(", "["} THEN Tail(raw) ELSE raw
        inner == IF headless # <<>> /\ headless[Len(headless)] \in {")", "]"}
                 THEN SubSeq(headless, 1, Len(headless) - 1) ELSE headless
    IN  IF inner = <<>> THEN <<>> ELSE split(inner, ",")

\* C13: a range registration from a raw entry that does not split into
\* exactly two elements raises and inserts nothing; from two convertible
\* elements it inserts the default (parse(first), parse(second))
C13_RangeNeedsTwoElements ==
    [][\A type \in {"int_range", "float_range", "date_range"} :
       \A call \in Calls(type) :
          LET key == call[1]
          IN  (/\ key \in DOMAIN query
               /\ RegistersNew(type, key, call[2]))
              => LET elements == Elements(query[key][1])
                     convert == CASE type = "int_range" -> "int"
                                  [] type = "float_range" -> "float"
                                  [] type = "date_range" -> "parse_date"
                     parse(i) == IF IsRaise(Unquote(elements[i]))
                                 THEN Unquote(elements[i])
                                 ELSE Call(convert, Unquote(elements[i]).v)
                 IN  IF Len(elements) # 2
                     THEN /\ last'.raised # "none"
                          /\ key \notin DOMAIN parameters'
                     ELSE IF IsRaise(parse(1)) THEN TRUE
                     ELSE IF IsRaise(parse(2)) THEN TRUE
                     ELSE /\ last'.raised = "none"
                          /\ key \in DOMAIN parameters'
                          /\ parameters'[key].default = PyTuple(<<parse(1), parse(2)>>)]_vars

\* a range registration has failed on the three elements of '(1,2,3)'
C13_Witness ==
    /\ last.op = "register" /\ last.raised = "AssertionError"
    /\ last.key \in DOMAIN query
    /\ query[last.key] = <<<<"(", "1", ",", "2", ",", "3", ")">>>>
    /\ last.key \notin DOMAIN parameters

\* C14: the attribute lookup parameters.<key> and update_parameter(key, value)
\* of a key that is not registered raise KeyError and leave the registry,
\* every Parameter and the export-all flag unchanged
C14_UnregisteredLookupFails ==
    [][\A key \in AccessKeys :
          (/\ last'.op \in {"__getattr__", "update_parameter"}
           /\ last'.key = key
           /\ key \notin DOMAIN parameters)
          => /\ last'.raised = "KeyError"
             /\ parameters' = parameters
             /\ session_state' = session_state]_vars

\* C15: for a registered key, whatever its name, the attribute lookup
\* parameters.<key> returns the Parameter the registry holds under the key
C15_AttributeIsMappingLookup ==
    (last.op = "__getattr__" /\ last.key \in DOMAIN parameters)
        => /\ last.raised = "none"
           /\ last.returned = parameters[last.key]

\* C16: update_parameter_from_session_state(key), for a registered key whose
\* widget value w streamlit.session_state holds, does what
\* update_parameter(key, w) does and leaves streamlit.session_state as it was
C16_UpdateFromSessionState ==
    [][\A key \in AccessKeys :
          (/\ last'.op = "update_parameter_from_session_state"
           /\ last'.key = key
           /\ key \in DOMAIN parameters
           /\ key \in DOMAIN session_state)
          => /\ last'.raised = "none"
             /\ parameters'[key].value = session_state[key]
             /\ parameters'[key].touched = TRUE
             /\ parameters'[key].default = parameters[key].default
             /\ DOMAIN parameters' = DOMAIN parameters
             /\ \A other \in DOMAIN parameters \ {key} :
                   parameters'[other] = parameters[other]
             /\ session_state' = session_state]_vars

\* the value 'Hello' of the widget has been written into an int Parameter
\* that was registered from the query string
C16_Witness ==
    /\ last.op = "update_parameter_from_session_state" /\ last.raised = "none"
    /\ session_state[last.key] = PyStr(<<"H", "e", "l", "l", "o">>)
    /\ parameters[last.key].value = PyStr(<<"H", "e", "l", "l", "o">>)
    /\ parameters[last.key].default = PyInt(14)
    /\ DOMAIN parameters # {last.key}

\* C17: as_dict returns a plain dict that maps exactly the registered keys to
\* their Parameters, and a key added to or removed from the returned dict
\* leaves the registry unchanged
C17_AsDictSnapshot ==
    [][/\ last'.op = "as_dict" =>
            /\ last'.raised = "none"
            /\ last'.returned.t = "dict"
            /\ DOMAIN last'.returned.v = DOMAIN parameters
            /\ \A key \in DOMAIN parameters :
                  last'.returned.v[key] = parameters[key]
            /\ parameters' = parameters
       /\ last'.op = "dict_write" => parameters' = parameters]_vars

\* a key has been removed from the dict as_dict returned for a registry that
\* holds a touched and an untouched Parameter, in partial export mode
C17_Witness ==
    /\ last.op = "dict_write"
    /\ ~is_set_all
    /\ last.key \in DOMAIN parameters
    /\ last.key \notin DOMAIN last.returned.v
    /\ \E key \in DOMAIN parameters : parameters[key].touched
    /\ \E key \in DOMAIN parameters : ~parameters[key].touched

\* C18: the export writes an int or date range (a, b) as '(a,b)' without
\* whitespace, and a session opened on that string that registers the range
\* with the same type obtains default = (a, b)
C18_RangeRoundTrip ==
    [][\A key \in DOMAIN shared :
       \A type \in {"int_range", "date_range"} :
       \A default_value \in TripValues(type) :
          (/\ shared[key].type = type
           /\ RegistersNew(type, key, default_value))
          => LET x == shared[key].value
             IN  /\ query[key] = <<(<<"(">> \o str(x.v[1]) \o <<",">>
                                      \o str(x.v[2]) \o <<")">>)>>
                 /\ \A i \in 1..Len(query[key][1]) : query[key][1][i] # " "
                 /\ last'.raised = "none"
                 /\ key \in DOMAIN parameters'
                 /\ parameters'[key].default = x]_vars

\* the range (-5, 12) has come back from the string '(-5,12)' although the
\* register call passed another default
C18_Witness ==
    /\ last.op = "register" /\ ~last.already /\ last.raised = "none"
    /\ last.key \in DOMAIN shared
    /\ shared[last.key].type = "int_range"
    /\ query[last.key] = <<<<"(", "-", "5", ",", "1", "2", ")">>>>
    /\ parameters[last.key].default = PyTuple(<<PyInt(-5), PyInt(12)>>)
    /\ parameters[last.key].touched

\* C19: a session opened on the string the export wrote for a string list x
\* that registers the list obtains default = x, whatever the elements hold
C19_StringListRoundTrip ==
    [][\A key \in DOMAIN shared :
       \A default_value \in TripValues("string_list") :
          (/\ shared[key].type = "string_list"
           /\ RegistersNew("string_list", key, default_value))
          => /\ last'.raised = "none"
             /\ key \in DOMAIN parameters'
             /\ parameters'[key].default = shared[key].value]_vars

\* C20: register_boolean_list_parameter of an unregistered key with the raw
\* entry '[true, false]' inserts a touched Parameter whose default and value
\* equal [True, False]
C20_BooleanListDecoded ==
    \A key \in DOMAIN parameters :
       LET from == registered_as[key]
           denoted == PyList(<<PyBool(TRUE), PyBool(FALSE)>>)
       IN  (/\ from.type = "boolean_list"
            /\ from.url = PyStr(<<"[", "t", "r", "u", "e", ",", " ",
                                  "f", "a", "l", "s", "e", "]">>)
            /\ last.op = "register" /\ last.key = key /\ ~last.already)
           => /\ PyEq(parameters[key].default, denoted)
              /\ PyEq(parameters[key].value, denoted)
              /\ parameters[key].touched

\* a boolean list has been registered from the entry '[true, false]'
C20_Witness ==
    /\ last.op = "register" /\ ~last.already /\ last.raised = "none"
    /\ last.key \in DOMAIN registered_as
    /\ registered_as[last.key].type = "boolean_list"
    /\ registered_as[last.key].url =
          PyStr(<<"[", "t", "r", "u", "e", ",", " ", "f", "a", "l", "s", "e", "]">>)
    /\ Len(parameters[last.key].default.v) = 2

\* C21: the display string of every registered Parameter is
\* 'Parameter(default=<default>,value=<value>,touched=<touched>)' built from
\* its current default, value and touched flag
C21_DisplayString ==
    \A key \in DOMAIN parameters :
       LET parameter == parameters[key]
       IN  Parameter__repr__(parameter) =
              <<"P", "a", "r", "a", "m", "e", "t", "e", "r", "(", "d", "e", "f", "a", "u", "l", "t", "=">> \o str(parameter.default)
                 \o <<",", "v", "a", "l", "u", "e", "=">> \o str(parameter.value)
                 \o <<",", "t", "o", "u", "c", "h", "e", "d", "=">>
                 \o (IF parameter.touched THEN <<"T", "r", "u", "e">> ELSE <<"F", "a", "l", "s", "e">>)
                 \o <<")">>

\* an int registered from the entry '14' and then updated to 4 displays as
\* 'Parameter(default=14,value=4,touched=True)'
C21_Witness ==
    /\ last.op = "update_parameter" /\ last.raised = "none"
    /\ registered_as[last.key].url = PyStr(<<"1", "4">>)
    /\ Parameter__repr__(parameters[last.key]) =
          <<"P", "a", "r", "a", "m", "e", "t", "e", "r", "(", "d", "e", "f", "a", "u", "l", "t", "=", "1", "4", ",", "v", "a", "l", "u", "e", "=", "4", ",", "t", "o", "u", "c", "h", "e", "d", "=", "T", "r", "u", "e", ")">>

\* C22: in a session loaded on a query string that holds a valid entry for a
\* key, the first registration of the key inserts a touched Parameter with
\* default = value = parsed(that entry), whatever was done before it
C22_LoadedQueryDecides ==
    [][\A type \in Types : \A call \in Calls(type) :
          LET key == call[1]
          IN  (/\ key \in DOMAIN LoadedQuery
               /\ RegistersNew(type, key, call[2])
               /\ ~IsRaise(parsed(type, LoadedQuery[key][1])))
              => /\ key \in DOMAIN parameters'
                 /\ parameters'[key].default = parsed(type, LoadedQuery[key][1])
                 /\ parameters'[key].value = parsed(type, LoadedQuery[key][1])
                 /\ parameters'[key].touched = TRUE]_vars

\* C23: for a raw value that is one token, register_boolean_list_parameter
\* accepts the token as register_bool_parameter does and produces for the
\* element the value register_bool_parameter produces for the raw value
C23_ListElementAsScalar ==
    [][\A call \in Calls("boolean_list") :
          LET key == call[1]
          IN  (/\ key \in DOMAIN query
               /\ Elements(query[key][1]) = <<query[key][1]>>
               /\ Unquote(query[key][1]) = PyStr(query[key][1])
               /\ RegistersNew("boolean_list", key, call[2]))
              => /\ last'.raised = "none"
                 /\ key \in DOMAIN parameters'
                 /\ PyEq(parameters'[key].default,
                         PyList(<<bool_from_url(query[key][1])>>))]_vars

\* C24: a string-list or boolean-list registration from a raw entry whose
\* content between the optional brackets is empty does not fail and inserts
\* a touched Parameter with default = value = the empty list
C24_EmptyListAccepted ==
    [][\A type \in {"string_list", "boolean_list"} : \A call \in Calls(type) :
          LET key == call[1]
          IN  (/\ key \in DOMAIN query
               /\ Elements(query[key][1]) = <<>>
               /\ RegistersNew(type, key, call[2]))
              => /\ last'.raised = "none"
                 /\ key \in DOMAIN parameters'
                 /\ parameters'[key].default = PyList(<<>>)
                 /\ parameters'[key].value = PyList(<<>>)
                 /\ parameters'[key].touched = TRUE]_vars

\* an element of the split, whitespace-trimmed and without at most one
\* leading and one trailing single quote
Trimmed(element) ==
    LET bare == strip(element)
        headless == IF bare # <<>> /\ bare[1] = "'" THEN Tail(bare) ELSE bare
    IN  IF headless # <<>> /\ headless[Len(headless)] = "'"
        THEN SubSeq(headless, 1, Len(headless) - 1) ELSE headless

\* C25: an int range registered from '(10, 20)', '[10,20]', '10,20' or
\* "('10','20')" has the default (10, 20); and for every raw entry, an
\* element of the split that is empty or not an int makes the registration
\* fail, and otherwise two elements give the default of their ints
C25_Tokenisation ==
    [][\A call \in Calls("int_range") :
          LET key == call[1]
          IN  (/\ key \in DOMAIN query
               /\ RegistersNew("int_range", key, call[2]))
              => LET raw == query[key][1]
                     elements == Elements(raw)
                     bad(i) == IF strip(elements[i]) = <<>> THEN TRUE
                               ELSE IsRaise(int(Trimmed(elements[i])))
                 IN  /\ raw \in {<<"(", "1", "0", ",", " ", "2", "0", ")">>,
                                 <<"[", "1", "0", ",", "2", "0", "]">>,
                                 <<"1", "0", ",", "2", "0">>,
                                 <<"(", "'", "1", "0", "'", ",", "'", "2", "0", "'", ")">>}
                           => /\ key \in DOMAIN parameters'
                              /\ parameters'[key].default =
                                    PyTuple(<<PyInt(10), PyInt(20)>>)
                     /\ IF \E i \in 1..Len(elements) : bad(i)
                        THEN /\ last'.raised # "none"
                             /\ key \notin DOMAIN parameters'
                        ELSE Len(elements) = 2 =>
                                /\ last'.raised = "none"
                                /\ parameters'[key].default =
                                      PyTuple(<<int(Trimmed(elements[1])),
                                                int(Trimmed(elements[2]))>>)]_vars

\* an int range has been registered as (10, 20) from "('10','20')"
C25_Witness ==
    /\ last.op = "register" /\ ~last.already /\ last.raised = "none"
    /\ last.key \in DOMAIN registered_as
    /\ registered_as[last.key].type = "int_range"
    /\ registered_as[last.key].url = PyStr(<<"(", "'", "1", "0", "'", ",", "'", "2", "0", "'", ")">>)
    /\ parameters[last.key].default = PyTuple(<<PyInt(10), PyInt(20)>>)

\* C26: when the query string carries several values for a key, registering
\* the key gives what the first value alone gives: the Parameter parsed from
\* it, or its conversion failure
C26_FirstValueOnly ==
    [][\A type \in Types : \A call \in Calls(type) :
          LET key == call[1]
          IN  (/\ key \in DOMAIN query
               /\ Len(query[key]) > 1
               /\ RegistersNew(type, key, call[2]))
              => LET first == parsed(type, query[key][1])
                 IN  IF IsRaise(first)
                     THEN /\ last'.raised = first.v
                          /\ key \notin DOMAIN parameters'
                     ELSE /\ last'.raised = "none"
                          /\ parameters'[key].default = first
                          /\ parameters'[key].value = first
                          /\ parameters'[key].touched = TRUE]_vars

\* an int has been registered as 14 from the query-string entry 14, 7
C26_Witness ==
    /\ last.op = "register" /\ ~last.already /\ last.raised = "none"
    /\ last.key \in DOMAIN query
    /\ query[last.key] = <<<<"1", "4">>, <<"7">>>>
    /\ registered_as[last.key].type = "int"
    /\ parameters[last.key].default = PyInt(14)

\* C27: in every reachable state, a registered Parameter that is not touched
\* has value = default
C27_UntouchedIsDefault ==
    \A key \in DOMAIN parameters :
        ~parameters[key].touched => parameters[key].value = parameters[key].default

\* after an export, one Parameter is untouched at its default while another
\* one has been updated away from its default
C27_Witness ==
    /\ last.op = "set_url_fields"
    /\ \E key \in DOMAIN parameters :
          /\ ~parameters[key].touched
          /\ parameters[key].value = parameters[key].default
    /\ \E key \in DOMAIN parameters :
          /\ parameters[key].touched
          /\ parameters[key].value # parameters[key].default

\* the last operation was an export that wrote the query string
JustExported == last.op = "set_url_fields" /\ last.raised = "none"

\* C28: no operation of a session resets touched from true to false, and a
\* key written by an export in partial mode is written by every later export
C28_TouchedIsMonotonic ==
    /\ [][\A key \in DOMAIN parameters :
             parameters[key].touched
                => /\ key \in DOMAIN parameters'
                   /\ parameters'[key].touched]_vars
    /\ \A key \in Keys :
          []((JustExported /\ ~is_set_all /\ key \in DOMAIN query)
                => [](JustExported => key \in DOMAIN query))

\* a Parameter that an update has touched and an export has written is still
\* touched after the export-all flag has been switched off
C28_Witness ==
    /\ last.op = "create_set_all_checkbox" /\ ~is_set_all
    /\ \E key \in DOMAIN parameters :
          /\ parameters[key].touched
          /\ parameters[key].value # parameters[key].default
          /\ IsRaise(registered_as[key].url)
          /\ key \in DOMAIN query

\* C29: no operation removes a key from the registry or changes the default
\* of a registered Parameter, and the successful registration of a new key
\* adds the key's entry and leaves every other Parameter, the export-all
\* flag and the query string as they were
C29_RegistryOnlyGrows ==
    [][/\ \A key \in DOMAIN parameters :
             /\ key \in DOMAIN parameters'
             /\ parameters'[key].default = parameters[key].default
       /\ (last'.op = "register" /\ ~last'.already /\ last'.raised = "none")
             => /\ DOMAIN parameters' = DOMAIN parameters \cup {last'.key}
                /\ \A key \in DOMAIN parameters : parameters'[key] = parameters[key]
                /\ session_state' = session_state
                /\ query' = query]_vars

\* a new key has just been registered while another Parameter, updated away
\* from its default, is in the registry
C29_Witness ==
    /\ last.op = "register" /\ ~last.already /\ last.raised = "none"
    /\ \E key \in DOMAIN parameters \ {last.key} :
          parameters[key].value # parameters[key].default

\* C30: an export leaves the registry, every Parameter and the export-all
\* flag unchanged; the query string it writes is determined by the registry
\* and the flag alone; an export that follows an export writes the same
\* query string
C30_ExportFrame ==
    [][last'.op = "set_url_fields"
          => /\ has_parameters' = has_parameters
             /\ parameters' = parameters
             /\ session_state' = session_state
             /\ last'.raised = "none"
                   => LET written == {key \in DOMAIN parameters :
                                         \/ session_state["_parameters_set_all"].v
                                         \/ parameters[key].touched}
                      IN  query' = [key \in written |-> <<to_str(parameters[key]).v>>]
             /\ JustExported => /\ last'.raised = "none"
                                /\ query' = query]_vars

\* an export in export-all mode has written a Parameter that was registered
\* without a query-string entry and is still untouched
C30_Witness ==
    /\ JustExported /\ is_set_all
    /\ \E key \in DOMAIN parameters :
          /\ ~parameters[key].touched
          /\ IsRaise(registered_as[key].url)
          /\ key \in DOMAIN query

\* C31: whatever keys are registered, among them a key named like a method
\* of the mapping, and whatever values of their registered type the
\* Parameters hold, an export completes and writes the entries of the
\* Parameters that are touched, or of all of them in export-all mode
C31_ExportNeverFails ==
    [][(/\ last'.op = "set_url_fields"
        /\ \A key \in DOMAIN parameters :
              HasType(registered_as[key].type, parameters[key].value))
          => /\ last'.raised = "none"
             /\ query' = [key \in {k \in DOMAIN parameters :
                                      \/ session_state["_parameters_set_all"].v
                                      \/ parameters[k].touched}
                            |-> <<to_str(parameters[key]).v>>]]_vars

====
